---- MODULE Spec2Model ----
(***************************************************************************)
(* A model of the LinkedIn lead pipeline of src/app.py and its Dedup Store *)
(* src/db.py.                                                              *)
(*                                                                         *)
(*   Spec       one worker thread executing scraper_task, together with   *)
(*              the request handlers that share its state (index, /stop,  *)
(*              /admin/resume-scraper, /api/submit-otp), the environment  *)
(*              (challenge page, SMTP and SQLite outcomes) and a process  *)
(*              restart.  Start requests are taken one after the other.   *)
(*   SpecDb     threads calling db.add_sent_job concurrently.             *)
(*   SpecStart  concurrent POST / requests racing on is_running.          *)
(*   SpecFilter the post filter applied to one scraped post.               *)
(*   SpecId     the fingerprint of one scraped post; SpecTwo, of two posts.*)
(*   SpecAdmin  the admin purges of the sent_jobs table and their backups. *)
(*   SpecBatch  one dispatch batch of the send loop and a stop request.    *)
(*   SpecLock   add_sent_job threads beside an admin purge of the table.   *)
(*   SpecCross  the fingerprints of one post met in two sources.           *)
(*   SpecRun    one run from its start, its thread scheduled fairly.       *)
(***************************************************************************)
EXTENDS Naturals, Sequences, FiniteSets, TLC

\* ------------------------------------------------------------------ bounds
MaxRuns == 2            \* pipeline runs started in one behaviour
MaxPosts == 2           \* accepted posts collected by one run
MaxGroups == 2          \* configured groups of one run
MaxKeywords == 1        \* configured search keywords of one run
HumanVerifyTimeout == 2 \* HUMAN_VERIFY_TIMEOUT, in units of one 2 s poll sleep
MaxCalls == 2           \* add_sent_job calls made by one thread (SpecDb)
MaxClock == 1           \* distinct utcnow() readings (SpecDb)
MaxSenders == 2         \* sender credentials of the settings
DelaySteps == 1         \* delay_seconds, in polling steps of 0.1 s

Fingerprints == {"f1", "f2"}
LegacyIds == {"f1"}
Recipients == {"", "r@x"}
DbThreads == {1, 2}
JobIds == {"", "a"}
Payloads == {"p", "q"}
Requests == {1, 2, 3}

VARIABLES
  \* scraper_status, stop_event, paused_sessions (process-wide state of app.py)
  is_running, progress, paused, resume_requested, stop_event, paused_sessions,
  \* the worker thread executing scraper_task: position, arguments, locals
  pc, recipient_emails, hold_emails_only, kwLeft, groupsLeft,
  driver, challenge, elapsed, all_job_posts, new_jobs, idx, sent_jobs_local,
  waited, senders,
  \* durable state: the sent_jobs table and the legacy sent-jobs.json
  sent_jobs, sent_jobs_file,
  \* history of the behaviour (not program state)
  runs, sends, sentOk, failed, written, readFailed, stopSeen,
  runEnd, resumedBy, attempts, orphan,
  \* SpecDb: threads inside add_sent_job
  lock, tpc, tjob, tcalls, tresults, clock,
  \* SpecStart: request handlers of index and the threads they start
  hpc, wpc,
  \* SpecFilter, SpecId: one scraped post and what the code computes from it
  post, result,
  \* SpecAdmin: the backup files written by the admin requests
  backups

flags == <<is_running, progress, paused, resume_requested, stop_event, paused_sessions>>
args == <<recipient_emails, hold_emails_only, kwLeft, groupsLeft>>
locals == <<driver, challenge, elapsed, all_job_posts, new_jobs, idx, sent_jobs_local,
            waited, senders>>
store == <<sent_jobs, sent_jobs_file>>
hist == <<runs, sends, sentOk, failed, written, readFailed, stopSeen,
          runEnd, resumedBy, attempts, orphan>>
dbvars == <<lock, tpc, tjob, tcalls, tresults, clock>>
startvars == <<hpc, wpc>>
purevars == <<post, result>>
adminvars == <<backups>>
vars == <<flags, pc, args, locals, store, hist, dbvars, startvars, purevars, adminvars>>

\* ------------------------------------------------------------ Dedup Store
\* A row of sent_jobs: id TEXT PRIMARY KEY, payload, created_at.
Row(job, now) == [id |-> job.id, payload |-> job.payload, created_at |-> now]

\* SELECT id FROM sent_jobs
Ids(table) == {r.id : r \in table}

\* INSERT OR IGNORE INTO sent_jobs(id, payload, created_at): a row whose id is
\* already present is left as it is.
InsertOrIgnore(table, job, now) ==
  IF job.id \in Ids(table) THEN table ELSE table \cup {Row(job, now)}

\* What add_sent_job returns once INSERT OR IGNORE and commit went through:
\* True, whether or not a row was inserted.
AddedResult(table, job) == TRUE

\* The job dict the pipeline builds for a post with fingerprint f.
Job(f) == [id |-> f, payload |-> f]

\* The arguments of a thread that is not inside add_sent_job.
NoJob == [id |-> "", payload |-> "p", created_at |-> 0]

\* ----------------------------------------------------------- Init (shared)
InitDb ==
  /\ lock = 0
  /\ tpc = [t \in DbThreads |-> "idle"]
  /\ tjob = [t \in DbThreads |-> NoJob]
  /\ tcalls = [t \in DbThreads |-> 0]
  /\ tresults = [t \in DbThreads |-> <<>>]
  /\ clock = 0

InitStart ==
  /\ hpc = [r \in Requests |-> "idle"]
  /\ wpc = [r \in Requests |-> "none"]

\* No post is being looked at.
InitPure ==
  /\ post = <<>>
  /\ result = <<>>

\* No backup file has been written.
InitAdmin == backups = <<>>

InitStatus ==
  /\ is_running = FALSE
  /\ progress = "idle"
  /\ paused = FALSE
  /\ resume_requested = FALSE
  /\ stop_event = FALSE
  /\ paused_sessions = {}

InitTask ==
  /\ pc = "none"
  /\ recipient_emails = ""
  /\ hold_emails_only = FALSE
  /\ kwLeft = 0
  /\ groupsLeft = 0
  /\ driver = "none"
  /\ challenge = FALSE
  /\ elapsed = 0
  /\ all_job_posts = <<>>
  /\ new_jobs = <<>>
  /\ idx = 1
  /\ sent_jobs_local = <<>>
  /\ waited = 0
  /\ senders = 1

InitHist ==
  /\ runs = 0
  /\ sends = [f \in Fingerprints |-> 0]
  /\ sentOk = {}
  /\ failed = {}
  /\ written = {}
  /\ readFailed = FALSE
  /\ stopSeen = FALSE
  /\ runEnd = "none"
  /\ resumedBy = "none"
  /\ attempts = <<>>
  /\ orphan = FALSE

Init ==
  /\ InitStatus
  /\ InitTask
  /\ InitHist
  /\ InitDb
  /\ InitStart
  /\ InitPure
  /\ InitAdmin
  /\ sent_jobs = {}
  /\ sent_jobs_file \in SUBSET LegacyIds

\* ------------------------------------------------- scraper_task: the exits
\* finally: quit the driver if one was created, is_running = False.
Finally ==
  /\ driver' = IF driver = "live" THEN "quit" ELSE driver
  /\ is_running' = FALSE
  /\ pc' = "done"

\* _assert_not_stopped raising StopRequested up to the handler of scraper_task:
\* the user-stop message, then finally.
StopUnwind ==
  /\ stop_event
  /\ progress' = "user_stop"
  /\ runEnd' = "stopped"
  /\ stopSeen' = TRUE
  /\ Finally
  /\ UNCHANGED <<paused, resume_requested, stop_event, paused_sessions, args,
                 challenge, elapsed, all_job_posts, new_jobs, idx, sent_jobs_local,
                 store, runs, sends, sentOk, failed, written, readFailed,
                 resumedBy, dbvars, startvars, purevars,
                 waited, senders, attempts, orphan, adminvars>>

\* except Exception as e at the end of scraper_task: an error message, then finally.
ErrorUnwind ==
  /\ progress' = "error"
  /\ runEnd' = "error"
  /\ Finally
  /\ UNCHANGED <<paused, resume_requested, stop_event, paused_sessions, args,
                 challenge, elapsed, all_job_posts, new_jobs, idx, sent_jobs_local,
                 store, runs, sends, sentOk, failed, written, readFailed,
                 stopSeen, resumedBy, dbvars, startvars, purevars,
                 waited, senders, attempts, orphan, adminvars>>

\* safe_get after an invalid session: it quits the driver it was given, creates
\* a new one and logs in on it.  The new driver is a local of safe_get until
\* safe_get returns: when the login on it raises, or when the retries are used
\* up after a recreation, the exception leaves safe_get, scraper_task's driver
\* still names the driver that was quit, and the new one is left running.
SafeGetFails ==
  /\ progress' = "error"
  /\ runEnd' = "error"
  /\ driver' = "quit"
  /\ orphan' = TRUE
  /\ is_running' = FALSE
  /\ pc' = "done"
  /\ UNCHANGED <<paused, resume_requested, stop_event, paused_sessions, args,
                 challenge, elapsed, all_job_posts, new_jobs, idx, sent_jobs_local,
                 waited, senders, store, runs, sends, sentOk, failed, written,
                 readFailed, stopSeen, resumedBy, attempts, dbvars,
                 startvars, purevars, adminvars>>

\* -------------------------------------------- scraper_task: start and login
\* scraper_status['is_running'] = True; progress = 'Starting scraper...'
task_begin ==
  /\ pc = "created"
  /\ is_running' = TRUE
  /\ progress' = "starting"
  /\ pc' = "clear"
  /\ UNCHANGED <<paused, resume_requested, stop_event, paused_sessions, args,
                 locals, store, runs, sends, sentOk, failed, written,
                 readFailed, stopSeen, runEnd, resumedBy,
                 dbvars, startvars, purevars,
                 attempts, orphan, adminvars>>

\* stop_event.clear()
task_clear_stop ==
  /\ pc = "clear"
  /\ stop_event' = FALSE
  /\ pc' = "setup"
  /\ UNCHANGED <<is_running, progress, paused, resume_requested, paused_sessions,
                 args, locals, store, hist, dbvars, startvars, purevars,
                 adminvars>>

\* Browser set-up up to create_driver().
task_setup ==
  /\ pc = "setup"
  /\ \/ StopUnwind
     \/ /\ ~stop_event
        /\ \/ \* Chrome binary not found, or Chrome already running: message, return
              /\ progress' = "setup_failed"
              /\ runEnd' = "setup_failed"
              /\ Finally
              /\ UNCHANGED <<paused, resume_requested, stop_event, paused_sessions,
                             args, challenge, elapsed, all_job_posts, new_jobs, idx,
                             sent_jobs_local, store, runs, sends, sentOk, failed,
                             written, readFailed, stopSeen, resumedBy, dbvars, startvars, purevars,
                 waited, senders, attempts, orphan, adminvars>>
           \/ \* webdriver.Chrome raises
              ErrorUnwind
           \/ /\ driver' = "live"
              /\ progress' = "setup"
              /\ pc' = "login"
              /\ UNCHANGED <<is_running, paused, resume_requested, stop_event,
                             paused_sessions, args, challenge, elapsed, all_job_posts,
                             new_jobs, idx, sent_jobs_local, store, runs, sends,
                             sentOk, failed, written, readFailed, stopSeen,
                             runEnd, resumedBy, dbvars,
                             startvars, purevars,
                 waited, senders, attempts, orphan, adminvars>>

\* do_login(driver), then the one challenge probe: is_human_verification_page.
\* On a challenge page: progress = 'Paused: ...', paused flag = True.
task_login ==
  /\ pc = "login"
  /\ \/ StopUnwind
     \/ /\ ~stop_event
        /\ \/ \* do_login raises
              ErrorUnwind
           \/ \E probe \in BOOLEAN :
                /\ challenge' = probe
                /\ progress' = IF probe THEN "paused" ELSE "login"
                /\ paused' = IF probe THEN TRUE ELSE paused
                /\ pc' = IF probe THEN "pause_store" ELSE "scrape"
                /\ UNCHANGED <<is_running, resume_requested, stop_event,
                               paused_sessions, args, driver, elapsed, all_job_posts,
                               new_jobs, idx, sent_jobs_local, store, runs, sends,
                               sentOk, failed, written, readFailed, stopSeen,
                               runEnd, resumedBy, dbvars, startvars, purevars,
                 waited, senders, attempts, orphan, adminvars>>

\* _save_artifacts, paused_sessions[token] = {..., 'driver_ref': driver}, the
\* pause notification e-mails, start = time.time().  The token of run n is n.
task_pause_store ==
  /\ pc = "pause_store"
  /\ paused_sessions' = paused_sessions \cup {runs}
  /\ elapsed' = 0
  /\ pc' = "wait"
  /\ UNCHANGED <<is_running, progress, paused, resume_requested, stop_event, args,
                 driver, challenge, all_job_posts, new_jobs, idx, sent_jobs_local,
                 store, hist, dbvars, startvars, purevars,
                 waited, senders, adminvars>>

\* Leaving the wait loop without clearing the paused flag: what the loop would
\* do if the assignment after it were missing.
LeaveWaitFlagKept(by, resume) ==
  /\ resume_requested' = resume
  /\ progress' = "resumed"
  /\ resumedBy' = by
  /\ pc' = "scrape"
  /\ elapsed' = 0
  /\ challenge' = FALSE
  /\ UNCHANGED <<is_running, paused, stop_event, paused_sessions, args, driver,
                 all_job_posts, new_jobs, idx, sent_jobs_local, store,
                 runs, sends, sentOk, failed, written, readFailed,
                 stopSeen, runEnd, dbvars, startvars, purevars,
                 waited, senders, attempts, orphan, adminvars>>

\* Leaving the wait loop by break: paused flag = False, 'Human verification
\* completed; resuming scraping...'.  Neither the loop's clock nor the page
\* probed by the loop is read again by this run.
LeaveWait(by, resume) ==
  /\ paused' = FALSE
  /\ resume_requested' = resume
  /\ progress' = "resumed"
  /\ resumedBy' = by
  /\ pc' = "scrape"
  /\ elapsed' = 0
  /\ challenge' = FALSE
  /\ UNCHANGED <<is_running, stop_event, paused_sessions, args, driver,
                 all_job_posts, new_jobs, idx, sent_jobs_local, store,
                 runs, sends, sentOk, failed, written, readFailed,
                 stopSeen, runEnd, dbvars, startvars, purevars,
                 waited, senders, attempts, orphan, adminvars>>

\* A timeout branch that only reports the timeout and falls out of the loop,
\* so that the run goes on with the sources.
WaitTimeoutGoesOn ==
  /\ progress' = "timeout"
  /\ runEnd' = "timeout"
  /\ pc' = "scrape"
  /\ UNCHANGED <<is_running, paused, resume_requested, stop_event, paused_sessions,
                 args, locals, store, runs, sends, sentOk, failed, written,
                 readFailed, stopSeen, resumedBy, dbvars, startvars, purevars,
                 attempts, orphan, adminvars>>

\* The timeout branch of the wait loop: message, driver.quit(), is_running =
\* False, return (and the finally of scraper_task).
WaitTimeout ==
  /\ progress' = "timeout"
  /\ runEnd' = "timeout"
  /\ Finally
  /\ UNCHANGED <<paused, resume_requested, stop_event, paused_sessions, args,
                 challenge, elapsed, all_job_posts, new_jobs, idx, sent_jobs_local,
                 store, runs, sends, sentOk, failed, written, readFailed,
                 stopSeen, resumedBy, dbvars, startvars, purevars,
                 waited, senders, attempts, orphan, adminvars>>

\* The head of one iteration of the wait loop: the stop check, then the
\* resume_requested check (consumed, break).  The handlers run on other
\* threads, so the flags may change before the rest of the iteration.
task_wait ==
  /\ pc = "wait"
  /\ \/ StopUnwind
     \/ /\ ~stop_event
        /\ resume_requested
        /\ LeaveWait("signal", FALSE)
     \/ /\ ~stop_event
        /\ ~resume_requested
        /\ pc' = "wait_probe"
        /\ UNCHANGED <<flags, args, locals, store, hist, dbvars, startvars, purevars,
                 adminvars>>

\* A wait loop that reads its start time anew in every iteration: the timeout
\* check never sees more than one sleep.
task_wait_probeRestartsClock ==
  /\ pc = "wait_probe"
  /\ \/ /\ ~challenge
        /\ LeaveWait("probe", resume_requested)
     \/ /\ challenge
        /\ elapsed > HumanVerifyTimeout
        /\ WaitTimeout
     \/ /\ challenge
        /\ ~(elapsed > HumanVerifyTimeout)
        /\ elapsed' = 0
        /\ pc' = "wait"
        /\ UNCHANGED <<flags, args, driver, challenge, all_job_posts, new_jobs,
                       idx, sent_jobs_local, store, hist, dbvars, startvars, purevars,
                 waited, senders, adminvars>>

\* The rest of the iteration: the probe (break when the page is no challenge
\* page), the timeout check, the 2 s sleep.
task_wait_probe ==
  /\ pc = "wait_probe"
  /\ \/ /\ ~challenge
        /\ LeaveWait("probe", resume_requested)
     \/ /\ challenge
        /\ elapsed > HumanVerifyTimeout
        /\ WaitTimeout
     \/ /\ challenge
        /\ ~(elapsed > HumanVerifyTimeout)
        /\ elapsed' = elapsed + 1
        /\ pc' = "wait"
        /\ UNCHANGED <<flags, args, driver, challenge, all_job_posts, new_jobs,
                       idx, sent_jobs_local, store, hist, dbvars, startvars, purevars,
                 waited, senders, adminvars>>

\* ----------------------------------------------- scraper_task: the sources
\* _assert_not_stopped() before the sources, counters reset, settings read.
task_scrape_begin ==
  /\ pc = "scrape"
  /\ \/ StopUnwind
     \/ /\ ~stop_event
        /\ pc' = "feed"
        /\ UNCHANGED <<flags, args, locals, store, hist, dbvars, startvars, purevars,
                 adminvars>>

\* The sequences of at most n fingerprints.
Posts(n) == UNION {[1..k -> Fingerprints] : k \in 0..n}

\* Home feed: the whole block sits in try / except Exception, which also
\* catches StopRequested (raised by the stop check that opens the block) and
\* every error of the page, and logs them as a scraping error.  Otherwise the
\* posts that pass the filters are appended to all_job_posts.
task_feed ==
  /\ pc = "feed"
  /\ \/ /\ stop_event
        /\ stopSeen' = TRUE
        /\ UNCHANGED <<progress, all_job_posts>>
     \/ /\ ~stop_event
        /\ progress' = "feed"
        /\ \E s \in Posts(MaxPosts - Len(all_job_posts)) :
             all_job_posts' = all_job_posts \o s
        /\ UNCHANGED <<stopSeen>>
  /\ pc' = "search"
  /\ UNCHANGED <<is_running, paused, resume_requested, stop_event, paused_sessions,
                 args, driver, challenge, elapsed, new_jobs, idx, sent_jobs_local,
                 store, runs, sends, sentOk, failed, written,
                 readFailed, runEnd, resumedBy, dbvars, startvars, purevars,
                 waited, senders, attempts, orphan, adminvars>>

\* for kw in kw_list: _assert_not_stopped() outside the try of the keyword.
task_search ==
  /\ pc = "search"
  /\ \/ /\ kwLeft = 0
        /\ pc' = "groups"
        /\ UNCHANGED <<flags, args, locals, store, hist, dbvars, startvars, purevars,
                 adminvars>>
     \/ /\ kwLeft > 0
        /\ StopUnwind
     \/ /\ kwLeft > 0
        /\ ~stop_event
        /\ progress' = "search"
        /\ pc' = "search_body"
        /\ UNCHANGED <<is_running, paused, resume_requested, stop_event,
                       paused_sessions, args, locals, store, runs, sends, sentOk,
                       failed, written, readFailed, stopSeen, runEnd, resumedBy, dbvars, startvars, purevars,
                 attempts, orphan, adminvars>>

\* One keyword search, inside try / except Exception: a stop seen here is
\* logged as a search error and swallowed, and so is every error of the page;
\* otherwise the posts that pass the filters are appended to all_job_posts.
task_search_body ==
  /\ pc = "search_body"
  /\ \/ /\ stop_event
        /\ stopSeen' = TRUE
        /\ UNCHANGED all_job_posts
     \/ /\ ~stop_event
        /\ \E s \in Posts(MaxPosts - Len(all_job_posts)) :
             all_job_posts' = all_job_posts \o s
        /\ UNCHANGED <<stopSeen>>
  /\ kwLeft' = kwLeft - 1
  /\ pc' = "search"
  /\ UNCHANGED <<flags, recipient_emails, hold_emails_only, groupsLeft, driver,
                 challenge, elapsed, new_jobs, idx, sent_jobs_local,
                 store, runs, sends, sentOk, failed, written, readFailed,
                 runEnd, resumedBy, dbvars, startvars, purevars,
                 waited, senders, attempts, orphan, adminvars>>

\* for group in target_groups: no try around a group (the drivers that the
\* safe_get of the feed and of the search may leave behind are not followed), so StopRequested and
\* every other exception reach the handlers of scraper_task.  No probe is made
\* before or after safe_get: the posts of the page are read whatever the page
\* is.  After the last group: 'Found N potential jobs after AI filter.
\* Filtering for new ones...'; the page is not looked at again.
task_groups ==
  /\ pc = "groups"
  /\ \/ /\ groupsLeft = 0
        /\ progress' = "found"
        /\ pc' = "filter"
        /\ challenge' = FALSE
        /\ UNCHANGED <<is_running, paused, resume_requested, stop_event,
                       paused_sessions, args, driver, elapsed, all_job_posts,
                       new_jobs, idx, sent_jobs_local, store, runs, sends, sentOk,
                       failed, written, readFailed, stopSeen, runEnd, resumedBy, dbvars, startvars, purevars,
                 waited, senders, attempts, orphan, adminvars>>
     \/ /\ groupsLeft > 0
        /\ StopUnwind
     \/ /\ groupsLeft > 0
        /\ ~stop_event
        /\ \/ \* safe_get raises at once, or the page cannot be read
              ErrorUnwind
           \/ \* safe_get recreates the driver and fails after that
              SafeGetFails
           \/ \E s \in Posts(MaxPosts - Len(all_job_posts)) :
                /\ all_job_posts' = all_job_posts \o s
                /\ groupsLeft' = groupsLeft - 1
                /\ progress' = "group"
                /\ UNCHANGED <<is_running, paused, resume_requested, stop_event,
                               paused_sessions, pc, recipient_emails,
                               hold_emails_only, kwLeft, driver, challenge, elapsed,
                               new_jobs, idx, sent_jobs_local, store, runs, sends,
                               sentOk, failed, written, readFailed,
                               stopSeen, runEnd, resumedBy,
                               dbvars, startvars, purevars,
                 waited, senders, attempts, orphan, adminvars>>

\* ------------------------------------------- scraper_task: filter new jobs
\* get_sent_job_ids(), or set() when it raises.
get_sent_job_ids(ok) == IF ok THEN Ids(sent_jobs) ELSE {}

\* sent_job_ids: the ids read from the table, united with those of sent-jobs.json.
SentJobIds(ok) == get_sent_job_ids(ok) \cup sent_jobs_file

\* New jobs taken from the end of all_job_posts to its start.
NewJobsBackwards(posts, ids) ==
  LET new == SelectSeq(posts, LAMBDA f : f \notin ids)
  IN  [i \in 1..Len(new) |-> new[Len(new) + 1 - i]]

\* new_jobs = [job for job in all_job_posts if job['id'] not in sent_job_ids]
NewJobs(posts, ids) == SelectSeq(posts, LAMBDA f : f \notin ids)

\* The filter for new jobs, then hold mode, or nothing new, or the head of the
\* batch: the sender pool is built from the settings (n usable entries); with
\* no sender at all the batch ends at once with 'Email Error: ...'.
task_filter ==
  /\ pc = "filter"
  /\ \E ok \in BOOLEAN :
       /\ readFailed' = ~ok
       /\ new_jobs' = NewJobs(all_job_posts, SentJobIds(ok))
       /\ idx' = 1
       /\ \/ /\ hold_emails_only
             /\ progress' = "hold"
             /\ runEnd' = "hold"
             /\ Finally
             /\ UNCHANGED senders
          \/ /\ ~hold_emails_only
             /\ new_jobs' = <<>>
             /\ progress' = "no_new"
             /\ pc' = "save"
             /\ UNCHANGED <<is_running, driver, runEnd, senders>>
          \/ /\ ~hold_emails_only
             /\ new_jobs' # <<>>
             /\ \E n \in 0..MaxSenders :
                  IF n = 0
                    THEN /\ progress' = "email_error"
                         /\ pc' = "save"
                         /\ UNCHANGED senders
                    ELSE /\ progress' = "sending"
                         /\ pc' = "send"
                         /\ senders' = n
             /\ UNCHANGED <<is_running, driver, runEnd>>
  /\ UNCHANGED <<paused, resume_requested, stop_event, paused_sessions, args,
                 challenge, elapsed, all_job_posts, sent_jobs_local, store, runs,
                 sends, sentOk, failed, written, stopSeen, resumedBy, dbvars, startvars, purevars,
                 waited, attempts, orphan, adminvars>>

\* ---------------------------------------------- scraper_task: the send loop
\* db.add_sent_job(job) in the pipeline: the table afterwards.  ok is whether
\* SQLite could be reached; an empty id is refused before the table is touched.
add_sent_job(job, now, ok) ==
  IF job.id = "" \/ ~ok THEN sent_jobs ELSE InsertOrIgnore(sent_jobs, job, now)

\* The fingerprints whose row add_sent_job inserted.
Inserted(table) == Ids(table) \ Ids(sent_jobs)

\* recipient_list = [r.strip() for r in recipient_emails.split(',') if r.strip()]
recipient_list == IF recipient_emails = "" THEN {} ELSE {recipient_emails}

\* Whether the item is handed to add_sent_job and appended to sent_jobs_local:
\* the code after the if / else of the send, reached unless the send raised.
Persists(sent, smtpOk) == ~sent \/ smtpOk

\* except Exception as e around the batch: it also catches StopRequested.
\* 'Email Error: ...', sent_jobs_local = [], and the run goes on to the save.
BatchError ==
  /\ stop_event
  /\ stopSeen' = TRUE
  /\ progress' = "email_error"
  /\ sent_jobs_local' = <<>>
  /\ waited' = 0
  /\ pc' = "save"
  /\ UNCHANGED <<is_running, paused, resume_requested, stop_event, paused_sessions,
                 args, driver, challenge, elapsed, all_job_posts, new_jobs, idx,
                 store, runs, sends, sentOk, failed, written, readFailed,
                 runEnd, resumedBy, dbvars, startvars, purevars,
                 senders, attempts, orphan, adminvars>>

Bump(n) == IF n < 2 THEN n + 1 ELSE n

\* A sender taken by the number of mails sent so far instead of by i.
senderBySent(i) == Len(sent_jobs_local) % senders

\* sender = senders[i % len(senders)], i the index of the item in new_jobs.
sender(i) == i % senders

\* A send loop without the try / except around one item: a send that raises
\* reaches the except around the batch.  'Email Error: ...', sent_jobs_local =
\* [], and the run goes on to the save.
task_sendAborts ==
  /\ pc = "send"
  /\ \/ BatchError
     \/ /\ ~stop_event
        /\ \E smtpOk \in BOOLEAN, dbOk \in BOOLEAN :
             LET f == new_jobs[idx]
                 sent == recipient_list # {}
                 table == add_sent_job(Job(f), runs, dbOk)
             IN /\ sent \/ smtpOk
                /\ sends' = IF sent /\ smtpOk
                              THEN [sends EXCEPT ![f] = Bump(@)] ELSE sends
                /\ sentOk' = IF sent /\ smtpOk THEN sentOk \cup {f} ELSE sentOk
                /\ failed' = IF sent /\ ~smtpOk THEN failed \cup {f} ELSE failed
                /\ IF Persists(sent, smtpOk)
                     THEN /\ sent_jobs' = table
                          /\ written' = written \cup Inserted(table)
                          /\ sent_jobs_local' = Append(sent_jobs_local, f)
                          /\ progress' = "sending"
                          /\ pc' = "delay"
                     ELSE /\ dbOk
                          /\ sent_jobs_local' = <<>>
                          /\ progress' = "email_error"
                          /\ pc' = "save"
                          /\ UNCHANGED <<sent_jobs, written>>
                /\ attempts' = IF sent THEN Append(attempts, sender(idx - 1))
                                        ELSE attempts
                /\ UNCHANGED <<is_running, paused, resume_requested, stop_event,
                               paused_sessions, args, driver, challenge, elapsed,
                               all_job_posts, new_jobs, idx, sent_jobs_file, runs,
                               readFailed, stopSeen, runEnd, resumedBy, dbvars,
                               startvars, purevars, waited, senders, orphan, adminvars>>

\* One item of for i, job in enumerate(new_jobs): the stop check, the choice of
\* the sender, the send (skipped when recipient_list is empty), the immediate
\* persist.  attempts lists the senders of the sends attempted.
task_send ==
  /\ pc = "send"
  /\ \/ BatchError
     \/ /\ ~stop_event
        /\ \E smtpOk \in BOOLEAN, dbOk \in BOOLEAN :
             LET f == new_jobs[idx]
                 sent == recipient_list # {}
                 table == add_sent_job(Job(f), runs, dbOk)
             IN /\ sent \/ smtpOk
                /\ sends' = IF sent /\ smtpOk
                              THEN [sends EXCEPT ![f] = Bump(@)] ELSE sends
                /\ sentOk' = IF sent /\ smtpOk THEN sentOk \cup {f} ELSE sentOk
                /\ failed' = IF sent /\ ~smtpOk THEN failed \cup {f} ELSE failed
                /\ IF Persists(sent, smtpOk)
                     THEN /\ sent_jobs' = table
                          /\ written' = written \cup Inserted(table)
                          /\ sent_jobs_local' = Append(sent_jobs_local, f)
                     ELSE /\ dbOk
                          /\ UNCHANGED <<sent_jobs, written, sent_jobs_local>>
                /\ attempts' = IF sent THEN Append(attempts, sender(idx - 1))
                                        ELSE attempts
                /\ progress' = "sending"
                /\ pc' = "delay"
                /\ UNCHANGED <<is_running, paused, resume_requested, stop_event,
                               paused_sessions, args, driver, challenge, elapsed,
                               all_job_posts, new_jobs, idx, sent_jobs_file, runs,
                               readFailed, stopSeen, runEnd, resumedBy, dbvars,
                               startvars, purevars, waited, senders, orphan, adminvars>>

\* A delay that sleeps through its steps without looking at stop_event.
task_delaySleeps ==
  /\ pc = "delay"
  /\ IF waited < DelaySteps
       THEN /\ waited' = waited + 1
            /\ UNCHANGED <<pc, idx, progress>>
       ELSE /\ waited' = 0
            /\ idx' = idx + 1
            /\ IF idx = Len(new_jobs)
                 THEN /\ progress' = "sent_ok"
                      /\ pc' = "save"
                 ELSE /\ pc' = "send"
                      /\ UNCHANGED <<progress>>
  /\ UNCHANGED <<is_running, paused, resume_requested, stop_event,
                 paused_sessions, args, driver, challenge, elapsed,
                 all_job_posts, new_jobs, sent_jobs_local, store, runs, sends,
                 sentOk, failed, written, readFailed, stopSeen,
                 runEnd, resumedBy, dbvars, startvars, purevars,
                 senders, attempts, orphan, adminvars>>

\* The stop-aware delay after an item: while waited < total, the stop check,
\* a sleep of one step, waited += step.  After it the next item or, after the
\* last one, 'Successfully sent N emails.'
task_delay ==
  /\ pc = "delay"
  /\ \/ /\ waited < DelaySteps
        /\ BatchError
     \/ /\ waited < DelaySteps
        /\ ~stop_event
        /\ waited' = waited + 1
        /\ UNCHANGED <<flags, pc, args, driver, challenge, elapsed, all_job_posts,
                       new_jobs, idx, sent_jobs_local, senders, store, hist,
                       dbvars, startvars, purevars, adminvars>>
     \/ /\ ~(waited < DelaySteps)
        /\ waited' = 0
        /\ idx' = idx + 1
        /\ IF idx = Len(new_jobs)
             THEN /\ progress' = "sent_ok"
                  /\ pc' = "save"
             ELSE /\ pc' = "send"
                  /\ UNCHANGED <<progress>>
        /\ UNCHANGED <<is_running, paused, resume_requested, stop_event,
                       paused_sessions, args, driver, challenge, elapsed,
                       all_job_posts, new_jobs, sent_jobs_local, store, runs, sends,
                       sentOk, failed, written, readFailed, stopSeen,
                       runEnd, resumedBy, dbvars, startvars, purevars,
                       senders, attempts, orphan, adminvars>>

\* for job in sent_jobs_local: add_sent_job(job), each call reaching SQLite or
\* not (done: the fingerprints whose call did); then the finally of scraper_task.
task_save ==
  /\ pc = "save"
  /\ \E done \in SUBSET {sent_jobs_local[i] : i \in 1..Len(sent_jobs_local)} :
       LET table == sent_jobs \cup {Row(Job(f), runs) : f \in done \ Ids(sent_jobs)}
       IN /\ sent_jobs' = table
          /\ written' = written \cup Inserted(table)
  /\ runEnd' = "completed"
  /\ Finally
  /\ UNCHANGED <<progress, paused, resume_requested, stop_event, paused_sessions,
                 args, challenge, elapsed, all_job_posts, new_jobs, idx,
                 sent_jobs_local, sent_jobs_file, runs, sends, sentOk, failed,
                 readFailed, stopSeen, resumedBy, dbvars, startvars, purevars,
                 waited, senders, attempts, orphan, adminvars>>

\* ------------------------------------------------------- request handlers
\* POST /: refused while is_running; otherwise a thread running scraper_task
\* is started with the form's arguments and the groups of the saved settings
\* (MaxGroups of them).
index ==
  /\ pc \in {"none", "done"}
  /\ ~is_running
  /\ runs < MaxRuns
  /\ \E r \in Recipients, h \in BOOLEAN, k \in 0..MaxKeywords, g \in {MaxGroups} :
       /\ recipient_emails' = r
       /\ hold_emails_only' = h
       /\ kwLeft' = k
       /\ groupsLeft' = g
  /\ pc' = "created"
  /\ driver' = "none"
  /\ challenge' = FALSE
  /\ elapsed' = 0
  /\ all_job_posts' = <<>>
  /\ new_jobs' = <<>>
  /\ idx' = 1
  /\ sent_jobs_local' = <<>>
  /\ runs' = runs + 1
  /\ sentOk' = {}
  /\ failed' = {}
  /\ written' = {}
  /\ readFailed' = FALSE
  /\ stopSeen' = FALSE
  /\ runEnd' = "none"
  /\ resumedBy' = "none"
  /\ waited' = 0
  /\ senders' = 1
  /\ attempts' = <<>>
  /\ orphan' = FALSE
  /\ UNCHANGED <<flags, store, sends, dbvars, startvars, purevars, adminvars>>

\* GET /status: report['paused_token'] = next(iter(paused_sessions.keys())), the
\* key inserted first, which is the token of the earliest run in the table
\* (0: no paused_token in the report).
paused_token ==
  IF paused_sessions = {} THEN 0
  ELSE CHOOSE t \in paused_sessions : \A u \in paused_sessions : t <= u

\* POST /stop: sets stop_event while is_running, else answers 400.
stop_scraper ==
  /\ is_running
  /\ stop_event' = TRUE
  /\ progress' = "stop_requested"
  /\ UNCHANGED <<is_running, paused, resume_requested, paused_sessions, pc, args,
                 locals, store, hist, dbvars, startvars, purevars, adminvars>>

\* POST /admin/resume-scraper: clears the paused flag when it is set, and sets
\* resume_requested otherwise.
admin_resume_scraper ==
  /\ IF paused
       THEN /\ paused' = FALSE
            /\ progress' = "admin_resumed"
            /\ UNCHANGED resume_requested
       ELSE /\ resume_requested' = TRUE
            /\ progress' = "admin_resume_requested"
            /\ UNCHANGED paused
  /\ UNCHANGED <<is_running, stop_event, paused_sessions, pc, args, locals, store,
                 runs, sends, sentOk, failed, written, readFailed,
                 stopSeen, runEnd, resumedBy, dbvars, startvars, purevars,
                 attempts, orphan, adminvars>>

\* OTP_TOKEN_MINUTES (default 15 minutes), the life of a token, in the unit of
\* HumanVerifyTimeout (default 900 s): by default the two are the same span.
OtpTokenMinutes == HumanVerifyTimeout

\* Whether now is past the token's expires_at.  expires_at is taken before the
\* wait loop reads its start time, so the token of the current run has expired
\* once the loop's clock has passed the token's life; of the token of an earlier
\* run nothing is known.
TokenExpired(token) == token = runs /\ elapsed > OtpTokenMinutes

\* POST /api/submit-otp with a token of paused_sessions and an otp: the otp is
\* typed into the token's driver; when that worked, resume_requested = True and
\* the token is deleted.  The driver of token n is the driver of run n.
api_submit_otp ==
  /\ \E token \in paused_sessions :
       /\ token = runs
       /\ driver = "live"
       /\ resume_requested' = TRUE
       /\ paused_sessions' = paused_sessions \ {token}
  /\ UNCHANGED <<is_running, progress, paused, stop_event, pc, args, locals, store,
                 runs, sends, sentOk, failed, written, readFailed,
                 stopSeen, runEnd, resumedBy, dbvars, startvars, purevars,
                 attempts, orphan, adminvars>>

\* ------------------------------------------------------------ environment
\* The challenge page goes away (a human solved it, the typed otp was accepted).
page_clears ==
  /\ pc \in {"pause_store", "wait", "wait_probe"}
  /\ challenge
  /\ challenge' = FALSE
  /\ UNCHANGED <<flags, pc, args, driver, elapsed, all_job_posts, new_jobs, idx,
                 sent_jobs_local, store, hist, dbvars, startvars, purevars,
                 waited, senders, adminvars>>

\* A challenge page comes up while the run is working through its groups
\* (LinkedIn asks for verification, or the page read by the probe holds one of
\* its indicator words).
page_challenges ==
  /\ pc = "groups"
  /\ groupsLeft > 0
  /\ ~challenge
  /\ challenge' = TRUE
  /\ UNCHANGED <<flags, pc, args, driver, elapsed, all_job_posts, new_jobs, idx,
                 sent_jobs_local, store, hist, dbvars, startvars, purevars,
                 waited, senders, adminvars>>

\* The process dies while a run is active and is started again: module-level
\* state is initialised anew, the worker is gone, the database file remains.
crash_restart ==
  /\ pc \notin {"none", "done"}
  /\ is_running' = FALSE
  /\ progress' = "idle"
  /\ paused' = FALSE
  /\ resume_requested' = FALSE
  /\ stop_event' = FALSE
  /\ paused_sessions' = {}
  /\ pc' = "none"
  /\ recipient_emails' = ""
  /\ hold_emails_only' = FALSE
  /\ kwLeft' = 0
  /\ groupsLeft' = 0
  /\ driver' = "none"
  /\ challenge' = FALSE
  /\ elapsed' = 0
  /\ all_job_posts' = <<>>
  /\ new_jobs' = <<>>
  /\ idx' = 1
  /\ sent_jobs_local' = <<>>
  /\ sentOk' = {}
  /\ failed' = {}
  /\ written' = {}
  /\ readFailed' = FALSE
  /\ stopSeen' = FALSE
  /\ resumedBy' = "none"
  /\ runEnd' = "crashed"
  /\ waited' = 0
  /\ senders' = 1
  /\ attempts' = <<>>
  /\ orphan' = FALSE
  /\ UNCHANGED <<store, runs, sends, dbvars, startvars, purevars, adminvars>>

Next ==
  \/ index
  \/ task_begin
  \/ task_clear_stop
  \/ task_setup
  \/ task_login
  \/ task_pause_store
  \/ task_wait
  \/ task_wait_probe
  \/ task_scrape_begin
  \/ task_feed
  \/ task_search
  \/ task_search_body
  \/ task_groups
  \/ task_filter
  \/ task_send
  \/ task_delay
  \/ task_save
  \/ stop_scraper
  \/ admin_resume_scraper
  \/ api_submit_otp
  \/ page_clears
  \/ page_challenges
  \/ crash_restart

Spec == Init /\ [][Next]_vars

\* ------------------------------------------------ SpecDb: db.add_sent_job
\* The calls of the other threads that are inside add_sent_job right now.
InFlight(t) == {<<u, tcalls[u]>> : u \in {v \in DbThreads \ {t} : tpc[v] # "idle"}}

\* One finished call: the id passed, what came back, and the calls that
\* were in flight when it finished.
Result(t, admitted, raised) ==
  [id |-> tjob[t].id, admitted |-> admitted, raised |-> raised,
   overlap |-> InFlight(t)]

\* jid = job.get('id'); if not jid: return False; payload = json.dumps(job);
\* created_at = utcnow()
db_call(t) ==
  /\ tpc[t] = "idle"
  /\ tcalls[t] < MaxCalls
  /\ tcalls' = [tcalls EXCEPT ![t] = @ + 1]
  /\ \E jid \in JobIds, p \in Payloads :
       IF jid = ""
         THEN /\ tresults' = [tresults EXCEPT ![t] =
                               Append(@, [id |-> jid, admitted |-> FALSE,
                                          raised |-> FALSE, overlap |-> InFlight(t)])]
              /\ UNCHANGED <<tpc, tjob>>
         ELSE /\ tjob' = [tjob EXCEPT ![t] =
                            [id |-> jid, payload |-> p, created_at |-> clock]]
              /\ tpc' = [tpc EXCEPT ![t] = "call"]
              /\ UNCHANGED tresults
  /\ UNCHANGED <<flags, pc, args, locals, store, hist, lock, clock, startvars, purevars,
                 adminvars>>

\* with _lock: (entry)
db_acquire(t) ==
  /\ tpc[t] = "call"
  /\ lock = 0
  /\ lock' = t
  /\ tpc' = [tpc EXCEPT ![t] = "locked"]
  /\ UNCHANGED <<flags, pc, args, locals, store, hist, tjob, tcalls, tresults,
                 clock, startvars, purevars,
                 adminvars>>

\* The body of with _lock: _get_conn (outside the try: its exception leaves
\* add_sent_job), INSERT OR IGNORE and commit (return True) or their
\* exception (rollback, return False); the lock is released on every way out.
db_insert(t) ==
  /\ tpc[t] = "locked"
  /\ lock = t
  /\ \/ /\ tresults' = [tresults EXCEPT ![t] = Append(@, Result(t, FALSE, TRUE))]
        /\ UNCHANGED sent_jobs
     \/ /\ tresults' = [tresults EXCEPT ![t] = Append(@, Result(t, FALSE, FALSE))]
        /\ UNCHANGED sent_jobs
     \/ /\ sent_jobs' = InsertOrIgnore(sent_jobs, tjob[t], tjob[t].created_at)
        /\ tresults' = [tresults EXCEPT ![t] =
                         Append(@, Result(t, AddedResult(sent_jobs, tjob[t]), FALSE))]
  /\ lock' = 0
  /\ tpc' = [tpc EXCEPT ![t] = "idle"]
  /\ tjob' = [tjob EXCEPT ![t] = NoJob]
  /\ UNCHANGED <<flags, pc, args, locals, sent_jobs_file, hist, tcalls,
                 clock, startvars, purevars,
                 adminvars>>

\* Time passes: the next utcnow() reads a later instant.
db_tick ==
  /\ clock < MaxClock
  /\ clock' = clock + 1
  /\ UNCHANGED <<flags, pc, args, locals, store, hist, lock, tpc, tjob, tcalls,
                 tresults, startvars, purevars,
                 adminvars>>

NextDb ==
  \/ \E t \in DbThreads : db_call(t)
  \/ \E t \in DbThreads : db_acquire(t)
  \/ \E t \in DbThreads : db_insert(t)
  \/ db_tick

\* An empty table and no legacy file.
InitEmpty ==
  /\ InitStatus
  /\ InitTask
  /\ InitHist
  /\ InitDb
  /\ InitStart
  /\ InitPure
  /\ InitAdmin
  /\ sent_jobs = {}
  /\ sent_jobs_file = {}

SpecDb == InitEmpty /\ [][NextDb]_vars

\* ------------------------------------------- SpecStart: POST / requests
\* if scraper_status['is_running']: return ..., 400
index_check(r) ==
  /\ hpc[r] = "idle"
  /\ hpc' = [hpc EXCEPT ![r] = IF is_running THEN "refused" ELSE "checked"]
  /\ UNCHANGED <<flags, pc, args, locals, store, hist, dbvars, wpc, purevars,
                 adminvars>>

\* threading.Thread(target=scraper_task, ...).start()
index_start(r) ==
  /\ hpc[r] = "checked"
  /\ hpc' = [hpc EXCEPT ![r] = "started"]
  /\ wpc' = [wpc EXCEPT ![r] = "created"]
  /\ UNCHANGED <<flags, pc, args, locals, store, hist, dbvars, purevars,
                 adminvars>>

\* The first statements of the thread: is_running = True, 'Starting scraper...'
scraper_task_begin(r) ==
  /\ wpc[r] = "created"
  /\ is_running' = TRUE
  /\ progress' = "starting"
  /\ wpc' = [wpc EXCEPT ![r] = "running"]
  /\ UNCHANGED <<paused, resume_requested, stop_event, paused_sessions, pc, args,
                 locals, store, hist, dbvars, hpc, purevars,
                 adminvars>>

\* The body of the thread up to its finally: is_running = False.
scraper_task_finally(r) ==
  /\ wpc[r] = "running"
  /\ is_running' = FALSE
  /\ progress' = "finished"
  /\ wpc' = [wpc EXCEPT ![r] = "done"]
  /\ UNCHANGED <<paused, resume_requested, stop_event, paused_sessions, pc, args,
                 locals, store, hist, dbvars, hpc, purevars,
                 adminvars>>

\* The threads that are executing scraper_task.
ActiveWorkers == {r \in Requests : wpc[r] = "running"}

NextStart ==
  \/ \E r \in Requests : index_check(r)
  \/ \E r \in Requests : index_start(r)
  \/ \E r \in Requests : scraper_task_begin(r)
  \/ \E r \in Requests : scraper_task_finally(r)

SpecStart == InitEmpty /\ [][NextStart]_vars

\* ------------------------------------------ SpecFilter: the filter chain
Sources == {"feed", "search", "group"}

\* What the Gemini call of ai_is_usa_hiring_post comes to: no key or URL
\* configured; a JSON object (hiring and usa read with bool(obj.get(..)), so
\* an absent key counts as false); an HTTP error that the 404 retries do not
\* cure; an exception of the request (timeout, unresolvable host); a reply
\* that is no JSON object.
Replies ==
  [kind : {"verdict"}, hiring : BOOLEAN, usa : BOOLEAN]
    \cup [kind : {"unconfigured", "http_error", "exception", "parse_failed"},
          hiring : {FALSE}, usa : {FALSE}]

\* One post as the filters see it: its source, whether recent_time_re matches
\* its text, the ai_filter_enabled setting, the classifier's reply, and
\* is_promo_training, seems_hiring, is_disallowed_location of its text.
FilterPosts ==
  [source : Sources, recent : BOOLEAN, ai_enabled : BOOLEAN, reply : Replies,
   promo : BOOLEAN, hiring : BOOLEAN, bad_loc : BOOLEAN]

\* A classifier that rejects when the backend gives no verdict.
ai_is_usa_hiring_postFailsClosed(reply) ==
  IF reply.kind = "verdict" THEN reply.hiring /\ reply.usa ELSE FALSE

\* keep of ai_is_usa_hiring_post: (hiring and usa) of a verdict, True otherwise.
ai_is_usa_hiring_post(reply) ==
  IF reply.kind = "verdict" THEN reply.hiring /\ reply.usa ELSE TRUE

\* reason of ai_is_usa_hiring_post: 'ai-disabled', the reason of the verdict,
\* 'ai-error:http-<code>', 'ai-error:<message>', 'ai-parse-failed'.  A reason
\* is written as the sequence of its parts.
ai_reason(reply) ==
  CASE reply.kind = "unconfigured" -> <<"ai-disabled">>
    [] reply.kind = "verdict" -> <<"reason">>
    [] reply.kind = "http_error" -> <<"ai-error:http">>
    [] reply.kind = "exception" -> <<"ai-error">>
    [] reply.kind = "parse_failed" -> <<"ai-parse-failed">>

\* A promo check that leaves keep as it is.
PromoOverrideOff(keep, p) == keep

\* if keep and is_promo_training(text) and not seems_hiring(text): keep = False
PromoOverride(keep, p) == IF keep /\ p.promo /\ ~p.hiring THEN FALSE ELSE keep

\* ... reason = (reason or '') + ' | promo-training'
PromoReason(keep, reason, p) ==
  IF keep /\ p.promo /\ ~p.hiring THEN reason \o <<" | promo-training">> ELSE reason

\* A location check that decides by itself, whatever keep was.
LocationOverrideDecides(keep, p) == ~p.bad_loc

\* if keep: bad_loc = is_disallowed_location(text); if bad_loc: keep = False
LocationOverride(keep, p) == IF keep /\ p.bad_loc THEN FALSE ELSE keep

\* ... reason = (reason or '') + ' | non-usa-location: puerto rico'
LocationReason(keep, reason, p) ==
  IF keep /\ p.bad_loc THEN reason \o <<" | non-usa-location: puerto rico">> ELSE reason

\* The else branch of if ai_enabled: the search and the groups drop promo
\* posts and disallowed locations; the home feed has no else branch.
WithoutAi(p) ==
  IF p.source = "feed" THEN TRUE ELSE ~(p.promo /\ ~p.hiring) /\ ~p.bad_loc

\* The filters of a source without the recent_time_re gate in front of them.
KeepWithoutGate(p) ==
  IF p.ai_enabled
    THEN LocationOverride(PromoOverride(ai_is_usa_hiring_post(p.reply), p), p)
    ELSE WithoutAi(p)

\* Whether the post is appended to all_job_posts.
Keep(p) ==
  /\ p.recent
  /\ IF p.ai_enabled
       THEN LocationOverride(PromoOverride(ai_is_usa_hiring_post(p.reply), p), p)
       ELSE WithoutAi(p)

\* The classifier's verdict on the post, "none" when it is not asked.
Verdict(p) ==
  IF ~p.recent \/ ~p.ai_enabled THEN "none"
  ELSE IF ai_is_usa_hiring_post(p.reply) THEN "accept" ELSE "reject"

\* reason when the filters of the post are done: '' unless the classifier was
\* asked, else its reason with the markers of the overrides that struck.
Reason(p) ==
  IF ~p.recent \/ ~p.ai_enabled THEN <<>>
  ELSE LET keep0 == ai_is_usa_hiring_post(p.reply)
           keep1 == PromoOverride(keep0, p)
       IN  LocationReason(keep1, PromoReason(keep0, ai_reason(p.reply), p), p)

NoDecision == [done |-> FALSE, verdict |-> "none", keep |-> FALSE, reason |-> <<>>]

\* The filters of a source applied to one post.
filter_post ==
  /\ ~result.done
  /\ result' = [done |-> TRUE, verdict |-> Verdict(post), keep |-> Keep(post),
                reason |-> Reason(post)]
  /\ UNCHANGED <<flags, pc, args, locals, store, hist, dbvars, startvars, post,
                 adminvars>>

InitFilter ==
  /\ InitStatus
  /\ InitTask
  /\ InitHist
  /\ InitDb
  /\ InitStart
  /\ InitAdmin
  /\ sent_jobs = {}
  /\ sent_jobs_file = {}
  /\ post \in FilterPosts
  /\ result = NoDecision

NextFilter == filter_post

SpecFilter == InitFilter /\ [][NextFilter]_vars

\* ---------------------------------------- SpecId: the identity of a post
\* A text is a sequence of atoms: a phrase of letters and inner blanks that
\* none of the patterns below touches, a run of digits, a unit or counter
\* word, a punctuation character, or one whitespace character.
NonWord == {" ", ",", "·"}
Digits == {"1", "2", "3", "5", "12", "45", "234"}
TimeUnits == {"h", "hr", "hrs", "hour", "hours", "m", "min", "mins", "minute", "minutes"}

IsWord(a) == a \notin NonWord

\* \b in front of atom i and behind atom j, both atoms made of word characters.
BoundaryBefore(t, i) == i = 1 \/ ~IsWord(t[i - 1])
BoundaryAfter(t, j) == j = Len(t) \/ ~IsWord(t[j + 1])

\* The first position from i on that holds no whitespace (\s*).
SkipSpaces(t, i) ==
  CHOOSE j \in i..(Len(t) + 1) :
    /\ j = Len(t) + 1 \/ t[j] # " "
    /\ \A k \in i..(j - 1) : t[k] = " "

\* text.lower()
Lower(t) ==
  [i \in 1..Len(t) |->
     CASE t[i] = "Hiring a Backend Engineer" -> "hiring a backend engineer"
       [] t[i] = "remote US only" -> "remote us only"
       [] OTHER -> t[i]]

\* \b\d+ <gap> <one of words>\b at position i: the number of atoms matched,
\* 0 for no match. The gap is \s* when spaced is FALSE and \s+ otherwise.
NumberThen(t, i, words, spaced) ==
  IF t[i] \in Digits /\ BoundaryBefore(t, i)
    THEN LET j == SkipSpaces(t, i + 1)
         IN  IF /\ j <= Len(t)
                /\ spaced => j > i + 1
                /\ t[j] \in words
                /\ BoundaryAfter(t, j)
               THEN j - i + 1
               ELSE 0
    ELSE 0

\* \b<one of words>\b at position i.
WordAt(t, i, words) ==
  IF t[i] \in words /\ BoundaryBefore(t, i) /\ BoundaryAfter(t, i) THEN 1 ELSE 0

\* The patterns of _normalize_text_for_id, in the order it applies them.
Patterns == <<"time", "just now", "likes", "comments", "shares", "follow", "premium">>

MatchLen(rule, t, i) ==
  CASE rule = "time" -> NumberThen(t, i, TimeUnits, FALSE)
    [] rule = "just now" ->
         IF /\ i + 2 <= Len(t)
            /\ t[i] = "just" /\ t[i + 1] = " " /\ t[i + 2] = "now"
            /\ BoundaryBefore(t, i) /\ BoundaryAfter(t, i + 2)
           THEN 3 ELSE 0
    [] rule = "likes" -> NumberThen(t, i, {"like", "likes"}, TRUE)
    [] rule = "comments" -> NumberThen(t, i, {"comment", "comments"}, TRUE)
    [] rule = "shares" -> WordAt(t, i, {"share", "shares"})
    [] rule = "follow" -> WordAt(t, i, {"follow", "following"})
    [] rule = "premium" -> WordAt(t, i, {"premium"})

\* re.sub(pattern, " ", t): every match, leftmost first, becomes one blank.
RECURSIVE Sub(_, _, _)
Sub(rule, t, i) ==
  IF i > Len(t) THEN <<>>
  ELSE LET n == MatchLen(rule, t, i)
       IN  IF n > 0 THEN <<" ">> \o Sub(rule, t, i + n)
                    ELSE <<t[i]>> \o Sub(rule, t, i + 1)

RECURSIVE SubAll(_, _)
SubAll(t, k) == IF k = 0 THEN t ELSE Sub(Patterns[k], SubAll(t, k - 1), 1)

\* re.sub(r"\s+", " ", t).strip()
RECURSIVE Collapse(_, _, _)
Collapse(t, i, afterSpace) ==
  IF i > Len(t) THEN <<>>
  ELSE IF t[i] = " "
    THEN IF afterSpace \/ SkipSpaces(t, i) > Len(t)
           THEN Collapse(t, i + 1, TRUE)
           ELSE <<" ">> \o Collapse(t, i + 1, TRUE)
    ELSE <<t[i]>> \o Collapse(t, i + 1, FALSE)

_normalize_text_for_id(text) ==
  IF text = <<>> THEN <<>>
  ELSE Collapse(SubAll(Lower(text), Len(Patterns)), 1, TRUE)

\* The hrefs of a post's anchors: the digits behind 'activity:' in the href
\* ("" when it has none) and the path of a '/posts/' link ("" when it is none).
ActivityIds == {"1", "2"}
PostPaths == {"/posts/a"}
AnchorsOf(ids) == [act : ids \cup {""}, path : PostPaths \cup {""}]
Anchors == AnchorsOf(ActivityIds)
MaxAnchors == 2
AnchorListsOf(ids) == UNION {[1..n -> AnchorsOf(ids)] : n \in 0..MaxAnchors}
AnchorLists == AnchorListsOf(ActivityIds)

\* The first anchor, in the order of the list, whose href holds
\* activity:<digits> or '/posts/' decides; <<>> stands for None. The sha1 of
\* the path is written as the path itself.
RECURSIVE ExtractFrom(_, _)
ExtractFrom(anchors, i) ==
  IF i > Len(anchors) THEN <<>>
  ELSE IF anchors[i].act # "" THEN <<"activity:", anchors[i].act>>
  ELSE IF anchors[i].path # "" THEN <<"postpath:", anchors[i].path>>
  ELSE ExtractFrom(anchors, i + 1)

_extract_linkedin_activity_id_from_anchors(anchors) == ExtractFrom(anchors, 1)

Keywords == {"java", "python"}

\* stable_id of a post: the anchors' id, else the hash of the normalized
\* text, prefixed 'feed:' in the home feed and 'txt:' elsewhere, the search
\* hashing the keyword along with the text. The sha256 is written as the
\* string it hashes.
stable_id(source, text, kw, anchors) ==
  LET found == _extract_linkedin_activity_id_from_anchors(anchors)
      normalized == _normalize_text_for_id(text)
  IN  IF found # <<>> THEN found
      ELSE CASE source = "feed" -> <<"feed:">> \o normalized
             [] source = "search" -> <<"txt:">> \o normalized \o <<"|kw:", kw>>
             [] source = "group" -> <<"txt:">> \o normalized

\* The texts LinkedIn shows for one post: its body, then the relative time
\* and, on some scrapes, a counter, with or without a separator dot.
Bodies ==
  { <<"Hiring a Backend Engineer">>,
    <<"Hiring a Backend Engineer", ",", " ", "remote US only", ",">> }
TimeTokens == { <<"2", "h">>, <<"45", "m">>, <<"5", " ", "min">>, <<"just", " ", "now">> }
CountTokens == { <<"12", " ", "likes">>, <<"3", " ", "comments">>,
                 <<"1", ",", "234", " ", "likes">> }
Tails ==
  [time : TimeTokens, sep : {""}, count : {<<>>}]
    \cup [time : TimeTokens, sep : {"", "·"}, count : CountTokens]

Text(body, tail) ==
  body \o <<" ">> \o tail.time
       \o (IF tail.count = <<>> THEN <<>>
           ELSE <<" ">> \o (IF tail.sep = "" THEN <<>> ELSE <<tail.sep, " ">>)
                        \o tail.count)

\* One post met twice in a source: under two keywords when the source is the
\* search, with the time and the counter its card shows at each meeting, and
\* with the same anchors both times.  Which activity id the post has makes no
\* difference to a single post, so it is the first one.
ScrapedPosts ==
  [source : Sources, body : Bodies,
   anchors : {<<a, a>> : a \in AnchorListsOf({"1"})},
   kw : Keywords \X Keywords, tail : Tails \X Tails]

\* Two posts of a source, each with anchors of its own, their cards showing
\* one of two tails.
TwoPosts ==
  [source : Sources, body : Bodies, anchors : AnchorLists \X AnchorLists,
   kw : {<<"java", "java">>},
   tail : {[time |-> <<"2", "h">>, sep |-> "", count |-> <<>>],
           [time |-> <<"45", "m">>, sep |-> "·", count |-> <<"12", " ", "likes">>]}
          \X {[time |-> <<"2", "h">>, sep |-> "", count |-> <<>>]}]

NoId == [done |-> FALSE, id1 |-> <<>>, id2 |-> <<>>]

\* The source computes the id of the post at both meetings (of both posts).
resolve_id ==
  /\ ~result.done
  /\ result' =
       [done |-> TRUE,
        id1 |-> stable_id(post.source, Text(post.body, post.tail[1]),
                          post.kw[1], post.anchors[1]),
        id2 |-> stable_id(post.source, Text(post.body, post.tail[2]),
                          post.kw[2], post.anchors[2])]
  /\ UNCHANGED <<flags, pc, args, locals, store, hist, dbvars, startvars, post,
                 adminvars>>

InitId ==
  /\ InitStatus
  /\ InitTask
  /\ InitHist
  /\ InitDb
  /\ InitStart
  /\ InitAdmin
  /\ sent_jobs = {}
  /\ sent_jobs_file = {}
  /\ post \in ScrapedPosts
  /\ result = NoId

NextId == resolve_id

SpecId == InitId /\ [][NextId]_vars

InitTwo ==
  /\ InitStatus
  /\ InitTask
  /\ InitHist
  /\ InitDb
  /\ InitStart
  /\ InitAdmin
  /\ sent_jobs = {}
  /\ sent_jobs_file = {}
  /\ post \in TwoPosts
  /\ result = NoId

SpecTwo == InitTwo /\ [][NextId]_vars

\* ------------------------- SpecCross: one post met in two sources of a run
\* One post without activity anchors, its card showing the same text at both
\* meetings; the sources of the two meetings and, for a search, its keyword.
CrossPosts ==
  [source : Sources \X Sources, body : Bodies,
   anchors : {<< <<>>, <<>> >>},
   kw : Keywords \X Keywords, tail : {<<t, t>> : t \in Tails}]

\* Each of the two sources computes the id of the post it scraped.
resolve_id_across ==
  /\ ~result.done
  /\ result' =
       [done |-> TRUE,
        id1 |-> stable_id(post.source[1], Text(post.body, post.tail[1]),
                          post.kw[1], post.anchors[1]),
        id2 |-> stable_id(post.source[2], Text(post.body, post.tail[2]),
                          post.kw[2], post.anchors[2])]
  /\ UNCHANGED <<flags, pc, args, locals, store, hist, dbvars, startvars, post,
                 adminvars>>

InitCross ==
  /\ InitStatus
  /\ InitTask
  /\ InitHist
  /\ InitDb
  /\ InitStart
  /\ InitAdmin
  /\ sent_jobs = {}
  /\ sent_jobs_file = {}
  /\ post \in CrossPosts
  /\ result = NoId

NextCross == resolve_id_across

SpecCross == InitCross /\ [][NextCross]_vars

\* --------------------------------- SpecAdmin: the purges of the sent_jobs table
MaxBackups == 2

\* The contact addresses in the 'emails' array of a payload.
EmailsOf(payload) == IF payload = "p" THEN {"a@x"} ELSE {}

\* The tables the purges start from: one row of the pipeline for each id.
Tables ==
  {t \in SUBSET [id : Fingerprints, payload : Payloads, created_at : 0..MaxClock] :
     /\ \A r1, r2 \in t : r1.id = r2.id => r1 = r2
     /\ Ids(t) = Fingerprints}

\* _create_pre_delete_backup: shutil.copy2 of the database file to
\* app.db.backup.<prefix>.<ts>; it returns the path, or None when the file is
\* missing or the copy raises.  The backups written so far, in order.
_create_pre_delete_backup(prefix, ok) ==
  IF ok THEN Append(backups, [prefix |-> prefix, table |-> sent_jobs]) ELSE backups

\* DELETE FROM sent_jobs WHERE id IN (ids), committed, or an exception of
\* sqlite3 that the handler answers with 500.
DeleteIds(ids, dbOk) ==
  IF dbOk THEN {r \in sent_jobs : r.id \notin ids} ELSE sent_jobs

\* POST /admin/sent-jobs/clear: DELETE FROM sent_jobs; no backup is made.
admin_clear_sent_jobs ==
  /\ \E dbOk \in BOOLEAN : sent_jobs' = IF dbOk THEN {} ELSE sent_jobs
  /\ UNCHANGED <<flags, pc, args, locals, sent_jobs_file, hist, dbvars, startvars,
                 purevars, adminvars>>

\* POST /admin/sent-jobs/delete-old {days}: the ids of the rows older than the
\* cutoff are collected, the backup is attempted, the rows are deleted whatever
\* the backup returned.
admin_delete_sent_jobs_older ==
  /\ Len(backups) < MaxBackups
  /\ \E days \in 0..MaxClock, backupOk \in BOOLEAN, dbOk \in BOOLEAN :
       LET to_delete == {r.id : r \in {x \in sent_jobs : x.created_at + days < clock}}
       IN  /\ backups' = _create_pre_delete_backup("before_delete_old", backupOk)
           /\ sent_jobs' = DeleteIds(to_delete, dbOk)
  /\ UNCHANGED <<flags, pc, args, locals, sent_jobs_file, hist, dbvars, startvars,
                 purevars>>

\* POST /admin/sent-jobs/delete {ids}: 400 without ids; else the backup is
\* attempted and the rows are deleted whatever the backup returned.
admin_delete_sent_jobs_by_ids ==
  /\ Len(backups) < MaxBackups
  /\ \E ids \in SUBSET Fingerprints \ {{}}, backupOk \in BOOLEAN, dbOk \in BOOLEAN :
       /\ backups' = _create_pre_delete_backup("before_delete_ids", backupOk)
       /\ sent_jobs' = DeleteIds(ids, dbOk)
  /\ UNCHANGED <<flags, pc, args, locals, sent_jobs_file, hist, dbvars, startvars,
                 purevars>>

\* POST /admin/sent-jobs/delete-by-email {email}: 400 without an address; else
\* the backup is attempted, the rows whose payload lists the address are
\* collected and deleted whatever the backup returned.
admin_delete_sent_jobs_by_email ==
  /\ Len(backups) < MaxBackups
  /\ \E target \in {"a@x", "b@x"}, backupOk \in BOOLEAN, dbOk \in BOOLEAN :
       LET to_delete == {r.id : r \in {x \in sent_jobs : target \in EmailsOf(x.payload)}}
       IN  /\ backups' = _create_pre_delete_backup("before_delete_email", backupOk)
           /\ sent_jobs' = DeleteIds(to_delete, dbOk)
  /\ UNCHANGED <<flags, pc, args, locals, sent_jobs_file, hist, dbvars, startvars,
                 purevars>>

InitAdminSpec ==
  /\ InitStatus
  /\ InitTask
  /\ InitHist
  /\ InitDb
  /\ InitStart
  /\ InitPure
  /\ InitAdmin
  /\ sent_jobs \in Tables
  /\ sent_jobs_file = {}

NextAdmin ==
  \/ admin_clear_sent_jobs
  \/ admin_delete_sent_jobs_older
  \/ admin_delete_sent_jobs_by_ids
  \/ admin_delete_sent_jobs_by_email
  \/ db_tick

SpecAdmin == InitAdminSpec /\ [][NextAdmin]_vars

\* ----------------- SpecLock: add_sent_job threads and an admin purge together
\* The threads inside db.add_sent_job and, on a request thread of its own, the
\* clear-all purge, which opens its own sqlite3 connection and never takes
\* db._lock.
NextLock ==
  \/ \E t \in DbThreads : db_call(t)
  \/ \E t \in DbThreads : db_acquire(t)
  \/ \E t \in DbThreads : db_insert(t)
  \/ db_tick
  \/ admin_clear_sent_jobs

SpecLock == InitEmpty /\ [][NextLock]_vars

\* ------------------------------------------ SpecBatch: one dispatch batch
MaxBatch == 3

\* The new jobs of a batch.
Batches == UNION {[1..k -> Fingerprints] : k \in 1..MaxBatch}

\* scraper_task at the head of for i, job in enumerate(new_jobs): the run is
\* active, its driver live, none of the new jobs in the table, the sender pool
\* built.
InitBatch ==
  /\ is_running = TRUE
  /\ progress = "sending"
  /\ paused = FALSE
  /\ resume_requested = FALSE
  /\ stop_event = FALSE
  /\ paused_sessions = {}
  /\ pc = "send"
  /\ recipient_emails \in Recipients
  /\ hold_emails_only = FALSE
  /\ kwLeft = 0
  /\ groupsLeft = 0
  /\ driver = "live"
  /\ challenge = FALSE
  /\ elapsed = 0
  /\ new_jobs \in Batches
  /\ all_job_posts = new_jobs
  /\ idx = 1
  /\ sent_jobs_local = <<>>
  /\ waited = 0
  /\ senders \in 1..MaxSenders
  /\ runs = 1
  /\ sends = [f \in Fingerprints |-> 0]
  /\ sentOk = {}
  /\ failed = {}
  /\ written = {}
  /\ readFailed = FALSE
  /\ stopSeen = FALSE
  /\ runEnd = "none"
  /\ resumedBy = "none"
  /\ attempts = <<>>
  /\ orphan = FALSE
  /\ InitDb
  /\ InitStart
  /\ InitPure
  /\ InitAdmin
  /\ sent_jobs = {}
  /\ sent_jobs_file = {}

NextBatch ==
  \/ task_send
  \/ task_delay
  \/ task_save
  \/ stop_scraper

SpecBatch == InitBatch /\ [][NextBatch]_vars

\* ------------------------------------- SpecRun: one run, from start to end
\* The steps of the thread that executes scraper_task.
scraper_task ==
  \/ task_begin
  \/ task_clear_stop
  \/ task_setup
  \/ task_login
  \/ task_pause_store
  \/ task_wait
  \/ task_wait_probe
  \/ task_scrape_begin
  \/ task_feed
  \/ task_search
  \/ task_search_body
  \/ task_groups
  \/ task_filter
  \/ task_send
  \/ task_delay
  \/ task_save

\* POST / has just started the thread of the last run of the behaviour; the
\* flags and the token table are as earlier runs may have left them (a run
\* that ended in its pause leaves the paused flag and its token, a stopped run
\* leaves stop_event set, a resume request may be pending).
InitRun ==
  /\ is_running = FALSE
  /\ progress = "idle"
  /\ paused \in BOOLEAN
  /\ resume_requested \in BOOLEAN
  /\ stop_event \in BOOLEAN
  /\ paused_sessions \in SUBSET (1..(MaxRuns - 1))
  /\ pc = "created"
  /\ recipient_emails \in Recipients
  /\ hold_emails_only \in BOOLEAN
  /\ kwLeft \in 0..MaxKeywords
  /\ groupsLeft = MaxGroups
  /\ driver = "none"
  /\ challenge = FALSE
  /\ elapsed = 0
  /\ all_job_posts = <<>>
  /\ new_jobs = <<>>
  /\ idx = 1
  /\ sent_jobs_local = <<>>
  /\ waited = 0
  /\ senders = 1
  /\ runs = MaxRuns
  /\ sends = [f \in Fingerprints |-> 0]
  /\ sentOk = {}
  /\ failed = {}
  /\ written = {}
  /\ readFailed = FALSE
  /\ stopSeen = FALSE
  /\ runEnd = "none"
  /\ resumedBy = "none"
  /\ attempts = <<>>
  /\ orphan = FALSE
  /\ InitDb
  /\ InitStart
  /\ InitPure
  /\ InitAdmin
  /\ sent_jobs = {}
  /\ sent_jobs_file \in SUBSET LegacyIds

NextRun ==
  \/ scraper_task
  \/ stop_scraper
  \/ admin_resume_scraper
  \/ api_submit_otp
  \/ page_clears
  \/ page_challenges

\* The thread of scraper_task is scheduled as long as it has a step to take,
\* and every call it makes returns; of the requests and of the page nothing
\* is assumed.
SpecRun == InitRun /\ [][NextRun]_vars /\ WF_vars(scraper_task)

\* ================================================================ claims
\* C1: across the runs that share one Dedup Store, no fingerprint is sent
\* more than once.
C1_AtMostOneSend == \A f \in Fingerprints : sends[f] <= 1

\* C2: a run whose read of the delivered fingerprints failed performs no send.
C2_NoSendAfterReadFailure == readFailed => sentOk = {}

\* C3: a run writes no record for a fingerprint whose send failed in that run.
C3_NoRecordAfterFailedSend == failed \cap written = {}

\* C4: every record a run writes belongs to an item whose send succeeded in
\* that run.
C4_RecordsOnlyForSentItems == written \subseteq sentOk

\* C5: when one thread, alone, calls add_sent_job twice with the same non-empty
\* id and the first call returns True, the second call returns False.
C5_SecondCallNotAdmitted ==
  \A t \in DbThreads :
    ( /\ \A u \in DbThreads \ {t} : tcalls[u] = 0
      /\ Len(tresults[t]) = 2
      /\ tresults[t][1].id # ""
      /\ tresults[t][1].id = tresults[t][2].id
      /\ tresults[t][1].admitted )
    => ~tresults[t][2].admitted

\* C6: of two add_sent_job calls with the same id that were in flight at the
\* same time, at most one returns True.
C6_OneConcurrentCallAdmitted ==
  \A t \in DbThreads : \A u \in DbThreads \ {t} :
    \A i \in 1..Len(tresults[t]) : \A j \in 1..Len(tresults[u]) :
      ( /\ tresults[t][i].id # ""
        /\ tresults[t][i].id = tresults[u][j].id
        /\ <<u, j>> \in tresults[t][i].overlap )
      => ~(tresults[t][i].admitted /\ tresults[u][j].admitted)

\* C7: the login probe that sees a challenge sets the paused flag and the run
\* stays running; while the worker waits, the flag is cleared by nothing but
\* an admin resume; when the wait ends because the probe sees no challenge,
\* the flag is cleared and the run goes on, running and with its driver, to
\* the sources.
C7_PauseThenResume ==
  [][ /\ (pc = "login" /\ pc' = "pause_store") => (paused' /\ is_running')
      /\ ( /\ pc \in {"pause_store", "wait", "wait_probe"}
           /\ pc' \in {"pause_store", "wait", "wait_probe"}
           /\ paused /\ ~paused' ) => progress' = "admin_resumed"
      /\ (pc \in {"wait", "wait_probe"} /\ pc' = "scrape")
           => (~paused' /\ is_running' /\ driver' = "live" /\ all_job_posts' = <<>>)
    ]_vars

\* C7 happens: a run that was resumed by a clear probe has delivered an item
\* and completed.
C7_ResumedRunDelivers ==
  /\ resumedBy = "probe"
  /\ sentOk # {}
  /\ runEnd = "completed"

\* C8: a run that timed out in the wait has ended: its driver is quit,
\* is_running is false, and it scraped no post, sent no item and wrote no
\* record.
C8_TimeoutAborts ==
  runEnd = "timeout" =>
    /\ pc = "done"
    /\ driver = "quit"
    /\ ~is_running
    /\ all_job_posts = <<>>
    /\ sentOk = {}
    /\ written = {}

\* C8 happens: a run has timed out in the wait after its clock passed the limit.
C8_TimedOut ==
  /\ runEnd = "timeout"
  /\ elapsed > HumanVerifyTimeout
  /\ challenge

\* C9: a run in which a stop check saw the stop signal ends with the
\* user-stop message.
C9_StopEndsWithUserStop ==
  [][ (pc # "done" /\ pc' = "done" /\ stopSeen') => progress' = "user_stop" ]_vars

\* C10: at most one thread is executing scraper_task.
C10_OneActiveWorker == Cardinality(ActiveWorkers) <= 1

\* C11: whenever the worker is not in a pause episode, the token table is
\* empty and the paused flag is clear.
C11_NoTokenOutsidePause ==
  pc \notin {"pause_store", "wait", "wait_probe"}
    => (paused_sessions = {} /\ ~paused)

\* C12: a request carrying a token that is past its expires_at changes nothing:
\* the token stays in the token table.
C12_ExpiredTokenChangesNothing ==
  [][ \A token \in paused_sessions :
        (TokenExpired(token) /\ pc' = pc) => token \in paused_sessions' ]_vars

\* C13: once /api/submit-otp has accepted the current token during the wait
\* and no stop is requested, the worker leaves the wait for the sources, and
\* the resume signal is false after that step.
C13_AcceptedResumeIsConsumed ==
  [][ ( /\ pc \in {"wait", "wait_probe"}
        /\ runs \notin paused_sessions
        /\ ~stop_event
        /\ pc' \notin {"wait", "wait_probe", "none"} )
      => (pc' = "scrape" /\ ~resume_requested') ]_vars

\* C14: the worker takes no post from a group page while the challenge probe
\* would return true.
C14_NoExtractionUnderChallenge ==
  [][ (pc = "groups" /\ all_job_posts' # all_job_posts) => ~challenge ]_vars

\* C15: the token table never holds more than one token, and the token that
\* /status reports while the worker waits is the token of the current run.
C15_OneCurrentToken ==
  /\ Cardinality(paused_sessions) <= 1
  /\ (pc \in {"wait", "wait_probe"} /\ paused_sessions # {}) => paused_token = runs

\* C16: in every source, a post the classifier rejects is not kept and so is
\* never appended to all_job_posts; the promo-training override and the
\* disallowed-location override turn keep from true to false only.
C16_OverridesOnlyTighten ==
  /\ (result.done /\ result.verdict = "reject") => ~result.keep
  /\ \A keep \in BOOLEAN :
       /\ PromoOverride(keep, post) => keep
       /\ LocationOverride(keep, post) => keep
       /\ LocationOverride(PromoOverride(keep, post), post) => keep

\* C16 witness: a group post with hiring terms and an allowed location that
\* the classifier rejected has gone through the filters.
C16_RejectedHiringPost ==
  /\ result.done
  /\ result.verdict = "reject"
  /\ post.source = "group"
  /\ post.hiring
  /\ ~post.bad_loc
  /\ ~result.keep

\* C17: a recent post whose classifier call failed (HTTP error, exception of
\* the request, unparsable reply) and that neither override rejects is kept,
\* in each of the three sources.
C17_ClassifierFailsOpen ==
  (/\ result.done
   /\ post.recent
   /\ post.ai_enabled
   /\ post.reply.kind \in {"http_error", "exception", "parse_failed"}
   /\ ~(post.promo /\ ~post.hiring)
   /\ ~post.bad_loc)
  => (result.keep /\ result.verdict = "accept")

\* C17 witness: a recent home-feed post was kept although the request to the
\* classifier raised.
C17_KeptDespiteFailure ==
  /\ result.done
  /\ post.source = "feed"
  /\ post.recent
  /\ post.ai_enabled
  /\ post.reply.kind = "exception"
  /\ result.keep

\* C18: two meetings of a post in one source, no anchor giving an id, whose
\* texts differ only in the relative-time token and in the counter token, get
\* the same id.
C18_SameTextSameId ==
  (/\ result.done
   /\ _extract_linkedin_activity_id_from_anchors(post.anchors[1]) = <<>>
   /\ post.tail[1].sep = post.tail[2].sep
   /\ (post.tail[1].count = <<>>) <=> (post.tail[2].count = <<>>))
  => result.id1 = result.id2

\* C19: the id is the activity id whenever some anchor carries one, in any
\* order of the anchors; it is the path hash only when no anchor carries an
\* activity id, and the text hash only when no anchor gives either.
C19_ActivityIdWins ==
  result.done =>
    LET hasActivity == \E i \in 1..Len(post.anchors[1]) : post.anchors[1][i].act # ""
        hasPath == \E i \in 1..Len(post.anchors[1]) : post.anchors[1][i].path # ""
    IN  /\ hasActivity => result.id1[1] = "activity:"
        /\ result.id1[1] = "postpath:" => ~hasActivity
        /\ result.id1[1] \in {"feed:", "txt:"} => (~hasActivity /\ ~hasPath)

\* C20: without anchors, 'Hiring a Backend Engineer, remote US only, 2h'
\* normalizes to 'hiring a backend engineer, remote us only', and the same
\* text ending in '45m · 12 likes' to the same string, so both get one id.
C20_ScenarioNormalizes ==
  (/\ result.done
   /\ post.anchors = << <<>>, <<>> >>
   /\ post.kw[1] = post.kw[2]
   /\ post.body = <<"Hiring a Backend Engineer", ",", " ", "remote US only", ",">>
   /\ post.tail[1] = [time |-> <<"2", "h">>, sep |-> "", count |-> <<>>]
   /\ post.tail[2] = [time |-> <<"45", "m">>, sep |-> "·",
                      count |-> <<"12", " ", "likes">>])
  => /\ _normalize_text_for_id(Text(post.body, post.tail[1]))
          = <<"hiring a backend engineer", ",", " ", "remote us only">>
     /\ _normalize_text_for_id(Text(post.body, post.tail[2]))
          = <<"hiring a backend engineer", ",", " ", "remote us only">>
     /\ result.id1 = result.id2

\* C21: a post the classifier accepts, whose text holds a promo or training
\* term and no hiring term, is not kept, and its reason is the classifier's
\* reason followed by the promo marker.
C21_PromoOverrideRejects ==
  (/\ result.done
   /\ result.verdict = "accept"
   /\ post.promo
   /\ ~post.hiring)
  => /\ ~result.keep
     /\ result.reason = ai_reason(post.reply) \o <<" | promo-training">>

\* C21 witness: the classifier accepted a group post such as 'free bootcamp,
\* enroll now' with a verdict of its own, and the post was dropped.
C21_PromoPostDropped ==
  /\ result.done
  /\ post.source = "group"
  /\ post.reply = [kind |-> "verdict", hiring |-> TRUE, usa |-> TRUE]
  /\ post.promo
  /\ ~post.hiring
  /\ ~post.bad_loc
  /\ result.verdict = "accept"
  /\ ~result.keep

\* C22: two posts whose anchors carry different activity ids, each post
\* carrying one id only, get different ids, whatever their texts and their
\* other anchors.
C22_DifferentActivityDifferentId ==
  LET ids(anchors) == {anchors[i].act : i \in 1..Len(anchors)} \ {""}
  IN  (/\ result.done
       /\ Cardinality(ids(post.anchors[1])) = 1
       /\ Cardinality(ids(post.anchors[2])) = 1
       /\ ids(post.anchors[1]) # ids(post.anchors[2]))
      => result.id1 # result.id2

\* C23: an admin request deletes rows of sent_jobs only after it has written a
\* backup of the table as it was; when the backup cannot be written no row is
\* deleted.
C23_BackupBeforeDelete ==
  [][ (\E r \in sent_jobs : r \notin sent_jobs')
        => /\ Len(backups') = Len(backups) + 1
           /\ backups'[Len(backups')].table = sent_jobs ]_vars

C25_RoundRobin ==
  LET count(c) == Cardinality({k \in 1..Len(attempts) : attempts[k] = c})
  IN  /\ \A k \in 1..Len(attempts) : attempts[k] = (k - 1) % senders
      /\ \A c1, c2 \in 0..(senders - 1) : count(c1) <= count(c2) + 1

\* C25 witness: three sends attempted over two senders, the first of them
\* failed.
C25_ThreeOverTwo ==
  /\ senders = 2
  /\ Len(attempts) = 3
  /\ new_jobs[1] \in failed
  /\ new_jobs[1] \notin sentOk

\* C26: resume_requested is false whenever the run enters the pause, so that a
\* resume taken through the flag answers a request made during that pause.
C26_NoStaleResume ==
  [][ (~paused /\ paused') => ~resume_requested' ]_vars

\* C27: a stop request accepted while a run is active is not lost: stop_event
\* stays set until that run has ended, whatever start-up step of the run the
\* request falls between, so that the run observes it and sends nothing.
C27_AcceptedStopStays ==
  [][ (/\ is_running
       /\ stop_event
       /\ pc = "clear" => progress = "stop_requested")
        => (stop_event' \/ ~is_running') ]_vars

\* C28: after an admin has posted to the admin resume endpoint while the run
\* waits in the pause, the run leaves the wait and goes on: it does not end on
\* the timeout of the wait.
C28_AdminResumeLeavesWait ==
  [][ (pc \in {"wait", "wait_probe"} /\ ~paused) => runEnd' # "timeout" ]_vars

\* C29: every token of the token table refers to the live driver of the run
\* in progress, never to a driver that has been quit.
C29_TokensReferToLiveDriver ==
  \A token \in paused_sessions : token = runs /\ driver = "live"

\* C30: when a run has ended, every driver it created has been quit.
C30_AllDriversReleased ==
  pc = "done" => (driver # "live" /\ ~orphan)

\* C31: the paused flag implies an active run: paused_for_human_verification
\* is true only while is_running is true.
C31_PausedImpliesRunning ==
  paused => is_running

C33_NoSendAfterFailedWrite ==
  [][ (\E f \in sentOk : f \notin Ids(sent_jobs))
        => /\ sends' = sends
           /\ Len(attempts') <= Len(attempts) ]_vars

\* C34: the sent_jobs table is changed only by the thread that holds the
\* store's lock, in the step in which it leaves the lock's block.
C34_WritesHoldTheLock ==
  [][ sent_jobs' # sent_jobs
        => \E t \in DbThreads : lock = t /\ tpc[t] = "locked" /\ tpc'[t] = "idle" ]_vars

\* C35: no request handler writes is_running, the paused flag or the token
\* table, and no step of scraper_task writes resume_requested or stop_event.
C35_WritersKeptApart ==
  [][ LET handler == \/ index
                     \/ stop_scraper
                     \/ admin_resume_scraper
                     \/ api_submit_otp
          pipeline == \/ task_begin
                      \/ task_clear_stop
                      \/ task_setup
                      \/ task_login
                      \/ task_pause_store
                      \/ task_wait
                      \/ task_wait_probe
                      \/ task_scrape_begin
                      \/ task_feed
                      \/ task_search
                      \/ task_search_body
                      \/ task_groups
                      \/ task_filter
                      \/ task_send
                      \/ task_delay
                      \/ task_save
      IN  /\ handler => UNCHANGED <<is_running, paused, paused_sessions>>
          /\ pipeline => UNCHANGED <<resume_requested, stop_event>> ]_vars

\* C36: every run that was started reaches its end with is_running false,
\* whatever the requests and the page do; in particular the wait of the pause
\* is always left.
C36_EveryRunTerminates ==
  (pc = "created") ~> (pc = "done" /\ ~is_running)

\* C36 witness: a run that waited in the pause on a page that stayed has ended
\* on the timeout of the wait.
C36_EndedAfterWait ==
  /\ pc = "done"
  /\ ~is_running
  /\ runs = MaxRuns
  /\ runEnd = "timeout"
  /\ elapsed > HumanVerifyTimeout
  /\ challenge

\* C37: a post that is appended to all_job_posts, whatever its source and
\* whether or not the classifier is enabled, is neither a promo post without
\* hiring intent nor a post of a disallowed location.
C37_KeptPostsPassedOverrides ==
  (result.done /\ result.keep) => (~(post.promo /\ ~post.hiring) /\ ~post.bad_loc)

\* C39: in every source the classifier is asked about a post only when
\* recent_time_re matches its text; a post without a recent time marker gets
\* no classifier verdict and is not appended to all_job_posts.
C39_RecencyGateFirst ==
  result.done =>
     /\ result.verdict # "none" => post.recent
     /\ ~post.recent => (result.verdict = "none" /\ ~result.keep /\ result.reason = <<>>)

\* C39 witness: a post without a recent time marker that the classifier, had
\* it been asked, would have accepted, and that no override strikes, was
\* dropped with the classifier enabled.
C39_StalePostDropped ==
  /\ result.done
  /\ ~post.recent
  /\ post.ai_enabled
  /\ post.reply = [kind |-> "verdict", hiring |-> TRUE, usa |-> TRUE]
  /\ ~post.promo
  /\ ~post.bad_loc
  /\ ~result.keep

\* C38: a post without activity id that shows the same text in two sources
\* (home feed, a keyword search under any keyword, a group) gets the same id
\* in both.
C38_SameTextAcrossSources ==
  result.done => result.id1 = result.id2

====
